---- MODULE Spec2Model ----
(***************************************************************************)
(* A model of the beaker CLI's session commands (cmd/beaker/session.go)    *)
(* and executor lifecycle commands (cmd/beaker/executor_linux.go).         *)
(*                                                                         *)
(* SessionSpec : one invocation of `session create|attach|exec` against    *)
(*               the remote scheduler and the container runtime driver.    *)
(* ExecutorSpec: any sequence of `executor install|start|stop|restart|     *)
(*               upgrade|uninstall` invocations on one node.               *)
(***************************************************************************)
EXTENDS Integers, Sequences, FiniteSets, TLC

VARIABLES
    \* ---- session commands ----
    cmd,        \* the session subcommand running: "none", "create", "attach", "exec"
    pc,         \* its position in the code
    sid,        \* the session ID it addresses ("" before it is known)
    ctxDone,    \* the process-wide context ctx is canceled
    timer,      \* awaitSessionSchedule's delay timer: "fired" or "armed"
    fetches,    \* session fetches made by awaitSessionSchedule
    session,    \* the *api.Session awaitSessionSchedule returned (NoSession before)
    remote,     \* the session as the scheduler holds it
    patches,    \* session patches sent, in order
    calls,      \* container runtime driver calls made, in order
    containers, \* the listing rt.ListContainers returned
    ci,         \* findRunningContainer's loop index into containers
    serr,       \* the error startSession returned
    attachRes,  \* what Attach/Exec returned (err) and handleAttachErr made of it
    info,       \* the session findRunningContainer fetched (NoSession before)
    requests,   \* scheduler API requests made, in order: [op, ctx, ok]
    opts,       \* the runtime.ContainerOpts startSession built (NoOpts before)
    ret,        \* the error the command returned
    \* ---- executor commands ----
    xcmd,       \* the executor subcommand last started
    xpc,        \* its position in the code ("idle" between commands)
    fs,         \* node files: artifact -> "absent" | "partial" | "ok"
    svc,        \* init-system state of the beaker-executor service
    ops,        \* side effects attempted by the command, in order
    xret,       \* the error the command returned
    other       \* a second, concurrent invocation while the first one runs:
                \* its [xcmd, xpc, ops, xret]

sessVars == <<cmd, pc, sid, ctxDone, timer, fetches, session, remote, patches,
              calls, containers, ci, serr, attachRes, info, requests, opts, ret>>
execVars == <<xcmd, xpc, fs, svc, ops, xret, other>>
vars == <<sessVars, execVars>>

-----------------------------------------------------------------------------
(* Bounds of the model.                                                    *)

\* Session fetches one scheduling wait may make before the model stops it.
MaxPolls == 3
\* Containers the runtime driver may list.
MaxContainers == 2

-----------------------------------------------------------------------------
(* Go errors: nil, or an error with a message.                             *)

NoErr == [nil |-> TRUE, msg |-> ""]
Err(m) == [nil |-> FALSE, msg |-> m]

\* strings.HasPrefix
HasPrefix(s, prefix) ==
    Len(s) >= Len(prefix) /\ SubSeq(s, 1, Len(prefix)) = prefix

\* A variant that only forgives the interactive-interrupt exit code.
handleAttachErrOnly130(err) ==
    IF ~err.nil /\ err.msg = "exited with code 130" THEN NoErr ELSE err

\* strings.Contains
Contains(s, sub) ==
    \E i \in 1..(Len(s) + 1) :
        i + Len(sub) - 1 <= Len(s) /\ SubSeq(s, i, i + Len(sub) - 1) = sub

\* A variant that looks for the exit message anywhere in the error.
handleAttachErrContains(err) ==
    IF ~err.nil /\ Contains(err.msg, "exited with code ") THEN NoErr ELSE err

\* session.go handleAttachErr
handleAttachErr(err) ==
    IF ~err.nil /\ HasPrefix(err.msg, "exited with code ") THEN NoErr ELSE err

\* What container.Attach / container.Exec may return.
AttachErrs ==
    { NoErr,
      Err("exited with code 130"),
      Err("exited with code 1"),
      Err("exited with code "),
      Err("exited with code"),
      Err("Exited with code 130"),
      Err("container exited with code 130"),
      Err("context canceled"),
      Err("") }

-----------------------------------------------------------------------------
(* The remote scheduler's session and its replies.                         *)

SessionIDs == {"01ABC", "01abc"}

\* *api.TaskResources granted to a session; NoLimits is a nil Limits pointer.
NoLimits == [present |-> FALSE, GPUs |-> <<>>, CPUCount |-> 0, Memory |-> 0]
Grants ==
    { [present |-> TRUE, GPUs |-> <<>>, CPUCount |-> 1, Memory |-> 1],
      [present |-> TRUE, GPUs |-> <<"0", "1">>, CPUCount |-> 4, Memory |-> 8] }

NoSession ==
    [exists |-> FALSE, id |-> "", scheduled |-> FALSE, started |-> FALSE,
     ended |-> FALSE, finalized |-> FALSE, canceled |-> FALSE, limits |-> NoLimits]

\* Sessions the scheduler may already hold when attach or exec is run.
ExistingSessions ==
    [exists : {TRUE}, id : SessionIDs, scheduled : BOOLEAN, started : BOOLEAN,
     ended : BOOLEAN, finalized : BOOLEAN, canceled : BOOLEAN, limits : Grants]

\* Listings of the runtime driver: each container by its beaker.org/session label
\* ("" when it carries none).
Labels == SessionIDs \cup {""}
ContainerLists == UNION { [1..n -> Labels] : n \in 0..MaxContainers }

\* One request to the scheduler's API as the command issued it: the operation,
\* the state of the context it was issued under, and whether it succeeded.
Req(op, ctx, ok) == [op |-> op, ctx |-> ctx, ok |-> ok]

-----------------------------------------------------------------------------
(* The container specification startSession builds.                        *)

UpperCase == "ABCDEFGHIJKLMNOPQRSTUVWXYZ"
LowerCase == "abcdefghijklmnopqrstuvwxyz"

\* unicode.ToLower on one character
LowerChar(c) ==
    IF \E i \in 1..Len(UpperCase) : SubSeq(UpperCase, i, i) = c
    THEN LET i == CHOOSE j \in 1..Len(UpperCase) : SubSeq(UpperCase, j, j) = c
         IN  SubSeq(LowerCase, i, i)
    ELSE c

\* strings.ToLower
RECURSIVE ToLower(_)
ToLower(str) ==
    IF Len(str) = 0 THEN ""
    ELSE LowerChar(SubSeq(str, 1, 1)) \o ToLower(SubSeq(str, 2, Len(str)))

\* strings.Join
RECURSIVE Join(_, _)
Join(elems, sep) ==
    IF Len(elems) = 0 THEN ""
    ELSE IF Len(elems) = 1 THEN elems[1]
    ELSE elems[1] \o sep \o Join(Tail(elems), sep)

NoOpts == [built |-> FALSE]

\* A variant that names the container after the session ID as it is.
ContainerOptsNoLower(s) ==
    [built    |-> TRUE,
     Name     |-> "session-" \o s.id,
     Labels   |-> [session |-> s.id, gpus |-> Join(s.limits.GPUs, ",")],
     CPUCount |-> s.limits.CPUCount,
     GPUs     |-> s.limits.GPUs,
     Memory   |-> s.limits.Memory]

\* session.go 290-293 (labels) and 317-332 (opts), from the session the wait
\* returned.
ContainerOpts(s) ==
    [built    |-> TRUE,
     Name     |-> ToLower("session-" \o s.id),
     Labels   |-> [session |-> s.id, gpus |-> Join(s.limits.GPUs, ",")],
     CPUCount |-> s.limits.CPUCount,
     GPUs     |-> s.limits.GPUs,
     Memory   |-> s.limits.Memory]

-----------------------------------------------------------------------------
(* Session commands.                                                       *)

\* The state of the process-wide context a request is issued under. A request
\* issued under a context that is already canceled is refused by the HTTP client.
Ctx == IF ctxDone THEN "canceled" ELSE "live"

SessInit ==
    /\ cmd = "none"
    /\ pc = "idle"
    /\ sid = ""
    /\ ctxDone = FALSE
    /\ timer = "armed"
    /\ fetches = 0
    /\ session = NoSession
    /\ remote \in {NoSession} \cup ExistingSessions
    /\ patches = <<>>
    /\ calls = <<>>
    /\ containers = <<>>
    /\ ci = 0
    /\ serr = NoErr
    /\ attachRes = [err |-> NoErr, handled |-> NoErr]
    /\ info = NoSession
    /\ requests = <<>>
    /\ opts = NoOpts
    /\ ret = NoErr

\* The command returns err to cobra.
Return(err) ==
    /\ pc' = "done"
    /\ ret' = err

\* startSession returns err to newSessionCreateCommand's RunE.
startSessionFails(err) ==
    /\ pc' = "patch"
    /\ serr' = err

\* `session create` is invoked, with or without --node.
BeginCreate ==
    /\ pc = "idle"
    /\ cmd' = "create"
    /\ \E nodeGiven \in BOOLEAN :
          pc' = IF nodeGiven THEN "CreateSession" ELSE "getCurrentNode"
    /\ UNCHANGED <<execVars, info, requests, opts, attachRes, sid, ctxDone, timer, fetches, session, remote, patches, calls,
                   containers, ci, serr, ret>>

\* A variant of create that asks the scheduler for the session before it
\* resolves the node.
GetCurrentNodeAfterCreate ==
    /\ pc = "getCurrentNode"
    /\ \/ /\ pc' = "CreateSession"
          /\ UNCHANGED <<ret, requests>>
       \/ /\ Return(Err("failed to detect node; use --node flag"))
          /\ requests' = Append(requests, Req("CreateSession", Ctx, TRUE))
    /\ UNCHANGED <<execVars, info, opts, attachRes, cmd, sid, ctxDone, timer, fetches, session, remote, patches,
                   calls, containers, ci, serr>>

\* session.go 81-87
GetCurrentNode ==
    /\ pc = "getCurrentNode"
    /\ \/ /\ pc' = "CreateSession"
          /\ UNCHANGED ret
       \/ Return(Err("failed to detect node; use --node flag"))
    /\ UNCHANGED <<execVars, info, requests, opts, attachRes, cmd, sid, ctxDone, timer, fetches, session, remote, patches,
                   calls, containers, ci, serr>>

\* session.go 89-98, and 245: the wait's timer is created with no delay.
CreateSession ==
    /\ pc = "CreateSession"
    /\ \/ /\ ~ctxDone
          /\ \E id \in SessionIDs :
                /\ sid' = id
                /\ remote' = [NoSession EXCEPT !.exists = TRUE, !.id = id]
          /\ requests' = Append(requests, Req("CreateSession", Ctx, TRUE))
          /\ pc' = "await"
          /\ timer' = "fired"
          /\ UNCHANGED ret
       \/ /\ Return(Err("create session failed"))
          /\ requests' = Append(requests, Req("CreateSession", Ctx, FALSE))
          /\ UNCHANGED <<sid, remote, timer>>
    /\ UNCHANGED <<execVars, info, opts, attachRes, cmd, ctxDone, fetches, session, patches, calls, containers, ci,
                   serr>>

\* session.go 248-249: the select's ctx.Done() case.
AwaitCtxDone ==
    /\ pc = "await"
    /\ ctxDone
    /\ startSessionFails(Err("context canceled"))
    /\ UNCHANGED <<execVars, info, requests, opts, attachRes, cmd, sid, ctxDone, timer, fetches, session, remote, patches,
                   calls, containers, ci, ret>>

\* A variant of the poll that returns whatever the fetch returned.
AwaitPollNoCheck ==
    /\ pc = "await"
    /\ timer = "fired"
    /\ fetches < MaxPolls
    /\ fetches' = fetches + 1
    /\ \/ /\ startSessionFails(Err("get session failed"))
          /\ requests' = Append(requests, Req("Get", Ctx, FALSE))
          /\ UNCHANGED <<session, timer>>
       \/ /\ ~ctxDone
          /\ requests' = Append(requests, Req("Get", Ctx, TRUE))
          /\ session' = remote
          /\ pc' = "labels"
          /\ UNCHANGED <<serr, timer>>
    /\ UNCHANGED <<execVars, info, opts, attachRes, cmd, sid, ctxDone, remote, patches, calls, containers,
                   ci, ret>>

\* A variant of the poll that tries again after a failed fetch.
AwaitPollRetry ==
    /\ pc = "await"
    /\ timer = "fired"
    /\ fetches < MaxPolls
    /\ fetches' = fetches + 1
    /\ \/ /\ requests' = Append(requests, Req("Get", Ctx, FALSE))
          /\ timer' = "armed"
          /\ UNCHANGED <<pc, serr, session>>
       \/ /\ ~ctxDone
          /\ remote.scheduled
          /\ requests' = Append(requests, Req("Get", Ctx, TRUE))
          /\ session' = remote
          /\ pc' = "labels"
          /\ UNCHANGED <<serr, timer>>
       \/ /\ ~ctxDone
          /\ ~remote.scheduled
          /\ requests' = Append(requests, Req("Get", Ctx, TRUE))
          /\ timer' = "armed"
          /\ UNCHANGED <<pc, serr, session>>
    /\ UNCHANGED <<execVars, info, opts, attachRes, cmd, sid, ctxDone, remote, patches, calls, containers, ci, ret>>

\* A variant of the poll that gives up after two polls of an unscheduled session.
AwaitPollLimited ==
    /\ pc = "await"
    /\ timer = "fired"
    /\ fetches < MaxPolls
    /\ fetches' = fetches + 1
    /\ \/ /\ startSessionFails(Err("get session failed"))
          /\ requests' = Append(requests, Req("Get", Ctx, FALSE))
          /\ UNCHANGED <<session, timer>>
       \/ /\ ~ctxDone
          /\ remote.scheduled
          /\ requests' = Append(requests, Req("Get", Ctx, TRUE))
          /\ session' = remote
          /\ pc' = "labels"
          /\ UNCHANGED <<serr, timer>>
       \/ /\ ~ctxDone
          /\ ~remote.scheduled
          /\ requests' = Append(requests, Req("Get", Ctx, TRUE))
          /\ IF fetches >= 1
             THEN startSessionFails(Err("timed out")) /\ UNCHANGED <<timer, session>>
             ELSE timer' = "armed" /\ UNCHANGED <<pc, serr, session>>
    /\ UNCHANGED <<execVars, info, opts, attachRes, cmd, sid, ctxDone, remote, patches, calls, containers, ci, ret>>

\* session.go 251-266: the select's delay.C case, one poll.
AwaitPoll ==
    /\ pc = "await"
    /\ timer = "fired"
    /\ fetches < MaxPolls
    /\ fetches' = fetches + 1
    /\ \/ /\ startSessionFails(Err("get session failed"))
          /\ requests' = Append(requests, Req("Get", Ctx, FALSE))
          /\ UNCHANGED <<session, timer>>
       \/ /\ ~ctxDone
          /\ remote.scheduled
          /\ requests' = Append(requests, Req("Get", Ctx, TRUE))
          /\ session' = remote
          /\ pc' = "labels"
          /\ UNCHANGED <<serr, timer>>
       \/ /\ ~ctxDone
          /\ ~remote.scheduled
          /\ requests' = Append(requests, Req("Get", Ctx, TRUE))
          /\ timer' = "armed"
          /\ UNCHANGED <<pc, serr, session>>
    /\ UNCHANGED <<execVars, info, opts, attachRes, cmd, sid, ctxDone, remote, patches, calls, containers, ci, ret>>

\* One second passes: delay.C becomes ready. A select whose ctx.Done() case is
\* already ready does not sit out the second.
TimerFires ==
    /\ pc = "await"
    /\ timer = "armed"
    /\ ~ctxDone
    /\ timer' = "fired"
    /\ UNCHANGED <<execVars, info, requests, opts, attachRes, cmd, pc, sid, ctxDone, fetches, session, remote, patches, calls,
                   containers, ci, serr, ret>>

\* session.go 241-269
awaitSessionSchedule == AwaitCtxDone \/ AwaitPoll \/ TimerFires

\* session.go 290-293: session.Limits is dereferenced; a nil Limits panics and the
\* process dies where it stands.
BuildLabels ==
    /\ pc = "labels"
    /\ pc' = IF session.limits.present THEN "user" ELSE "panic"
    /\ UNCHANGED <<execVars, info, requests, opts, attachRes, cmd, sid, ctxDone, timer, fetches, session, remote, patches,
                   calls, containers, ci, serr, ret>>

\* session.go 295-298, then 317-332: the container's options are built.
UserCurrent ==
    /\ pc = "user"
    /\ \/ /\ pc' = "NewRuntime"
          /\ opts' = ContainerOpts(session)
          /\ UNCHANGED serr
       \/ /\ startSessionFails(Err("user: Current not implemented"))
          /\ UNCHANGED opts
    /\ UNCHANGED <<execVars, info, requests, attachRes, cmd, sid, ctxDone, timer, fetches, session, remote, patches,
                   calls, containers, ci, ret>>

\* A variant that notes a failed driver call and goes on to the next.
DriverStepGoesOn(at, call, next) ==
    /\ pc = at
    /\ calls' = Append(calls, call)
    /\ pc' = next
    /\ \/ UNCHANGED serr
       \/ serr' = Err(call \o " failed")
    /\ UNCHANGED <<execVars, info, requests, opts, attachRes, cmd, sid, ctxDone, timer, fetches, session, remote, patches,
                   containers, ci, ret>>

\* One call of the runtime driver by startSession: on success go to `next`.
DriverStep(at, call, next) ==
    /\ pc = at
    /\ calls' = Append(calls, call)
    /\ \/ /\ pc' = next
          /\ UNCHANGED serr
       \/ startSessionFails(Err(call \o " failed"))
    /\ UNCHANGED <<execVars, info, requests, opts, attachRes, cmd, sid, ctxDone, timer, fetches, session, remote, patches,
                   containers, ci, ret>>

\* session.go 334-337
NewRuntime == DriverStep("NewRuntime", "NewRuntime", "PullImage")
\* session.go 342-344
PullImage == DriverStep("PullImage", "PullImage", "CreateContainer")
\* session.go 346-349
CreateContainer == DriverStep("CreateContainer", "CreateContainer", "Start")
\* session.go 351-353
StartContainer == DriverStep("Start", "Start", "Attach")

\* session.go 354 and 106-118: attach, then startSession's result decides.
AttachCreated ==
    /\ pc = "Attach"
    /\ calls' = Append(calls, "Attach")
    /\ \E e \in AttachErrs :
          /\ attachRes' = [err |-> e, handled |-> handleAttachErr(e)]
          /\ IF handleAttachErr(e).nil
             THEN Return(NoErr) /\ UNCHANGED serr
             ELSE startSessionFails(handleAttachErr(e)) /\ UNCHANGED ret
    /\ UNCHANGED <<execVars, info, requests, opts, cmd, sid, ctxDone, timer, fetches, session, remote, patches,
                   containers, ci>>

\* session.go 271-355
startSession ==
    \/ awaitSessionSchedule
    \/ BuildLabels
    \/ UserCurrent
    \/ NewRuntime
    \/ PullImage
    \/ CreateContainer
    \/ StartContainer
    \/ AttachCreated

\* The runtime driver call `c` has been made.
InCalls(c) == \E i \in 1..Len(calls) : calls[i] = c

\* A variant that leaves the session alone when the wait was canceled.
CancelPatchUnlessCanceled ==
    /\ pc = "patch"
    /\ IF serr = Err("context canceled") /\ session.id = ""
       THEN UNCHANGED <<patches, remote, requests>>
       ELSE /\ patches' = Append(patches, [session |-> sid, ctx |-> "Background",
                                           canceled |-> TRUE])
            /\ remote' = [remote EXCEPT !.canceled = TRUE]
            /\ requests' = Append(requests, Req("Patch", "Background", TRUE))
    /\ Return(serr)
    /\ UNCHANGED <<execVars, info, opts, attachRes, cmd, sid, ctxDone, timer, fetches, session, calls,
                   containers, ci, serr>>

\* A variant that sends the patch under the command's own context and returns
\* the patch's error when it fails.
CancelPatchUnderCtx ==
    /\ pc = "patch"
    /\ patches' = Append(patches, [session |-> sid, ctx |-> Ctx, canceled |-> TRUE])
    /\ \/ /\ ~ctxDone
          /\ remote' = [remote EXCEPT !.canceled = TRUE]
          /\ requests' = Append(requests, Req("Patch", Ctx, TRUE))
          /\ Return(serr)
       \/ /\ UNCHANGED remote
          /\ requests' = Append(requests, Req("Patch", Ctx, FALSE))
          /\ Return(Err("patch session failed"))
    /\ UNCHANGED <<execVars, info, opts, attachRes, cmd, sid, ctxDone, timer, fetches, session, calls, containers,
                   ci, serr>>

\* A variant that leaves the session alone once its container has been started.
CancelPatchUnlessStarted ==
    /\ pc = "patch"
    /\ IF InCalls("Attach")
       THEN UNCHANGED <<patches, remote, requests>>
       ELSE /\ patches' = Append(patches, [session |-> sid, ctx |-> "Background",
                                           canceled |-> TRUE])
            /\ \/ /\ remote' = [remote EXCEPT !.canceled = TRUE]
                  /\ requests' = Append(requests, Req("Patch", "Background", TRUE))
               \/ /\ UNCHANGED remote
                  /\ requests' = Append(requests, Req("Patch", "Background", FALSE))
    /\ Return(serr)
    /\ UNCHANGED <<execVars, info, opts, attachRes, cmd, sid, ctxDone, timer, fetches, session, calls, containers,
                   ci, serr>>

\* session.go 106-117: the compensating cancel, sent under context.Background();
\* its result is dropped.
CancelPatch ==
    /\ pc = "patch"
    /\ patches' = Append(patches, [session |-> sid, ctx |-> "Background",
                                   canceled |-> TRUE])
    /\ \/ /\ remote' = [remote EXCEPT !.canceled = TRUE]
          /\ requests' = Append(requests, Req("Patch", "Background", TRUE))
       \/ /\ UNCHANGED remote
          /\ requests' = Append(requests, Req("Patch", "Background", FALSE))
    /\ Return(serr)
    /\ UNCHANGED <<execVars, info, opts, attachRes, cmd, sid, ctxDone, timer, fetches, session, calls, containers,
                   ci, serr>>

\* session.go 56-121
newSessionCreateCommand ==
    BeginCreate \/ GetCurrentNode \/ CreateSession \/ startSession \/ CancelPatch

\* The scheduler assigns the session to a node, with or without a grant.
ServerSchedule ==
    /\ remote.exists
    /\ ~remote.scheduled
    /\ \E l \in Grants \cup {NoLimits} :
          remote' = [remote EXCEPT !.scheduled = TRUE, !.limits = l]
    /\ UNCHANGED <<execVars, info, requests, opts, attachRes, cmd, pc, sid, ctxDone, timer, fetches, session, patches, calls,
                   containers, ci, serr, ret>>

\* The process receives an interrupt signal: ctx is canceled.
CtxCancel ==
    /\ pc \notin {"idle", "done", "panic"}
    /\ ~ctxDone
    /\ ctxDone' = TRUE
    /\ UNCHANGED <<execVars, info, requests, opts, attachRes, cmd, pc, sid, timer, fetches, session, remote, patches, calls,
                   containers, ci, serr, ret>>

-----------------------------------------------------------------------------
(* `session attach` and `session exec`.                                    *)

\* `session attach <session>` or `session exec <session> <command>` is invoked.
BeginAttachOrExec ==
    /\ pc = "idle"
    /\ remote.exists
    /\ cmd' \in {"attach", "exec"}
    /\ sid' = remote.id
    /\ pc' = "find_Get"
    /\ UNCHANGED <<execVars, info, requests, opts, attachRes, ctxDone, timer, fetches, session, remote, patches, calls,
                   containers, ci, serr, ret>>

\* A variant that does not look at the session's Ended timestamp.
FindGetNoEndedCheck ==
    /\ pc = "find_Get"
    /\ \/ /\ Return(Err("get session failed"))
          /\ requests' = Append(requests, Req("Get", Ctx, FALSE))
          /\ UNCHANGED info
       \/ /\ ~ctxDone
          /\ requests' = Append(requests, Req("Get", Ctx, TRUE))
          /\ info' = remote
          /\ \/ /\ ~remote.started
                /\ Return(Err("session not started"))
             \/ /\ remote.started /\ remote.finalized
                /\ Return(Err("session already finalized"))
             \/ /\ remote.started /\ ~remote.finalized
                /\ pc' = "find_NewRuntime"
                /\ UNCHANGED ret
    /\ UNCHANGED <<execVars, opts, attachRes, cmd, sid, ctxDone, timer, fetches, session, remote, patches,
                   calls, containers, ci, serr>>

\* session.go 368-380
FindGet ==
    /\ pc = "find_Get"
    /\ \/ /\ Return(Err("get session failed"))
          /\ requests' = Append(requests, Req("Get", Ctx, FALSE))
          /\ UNCHANGED info
       \/ /\ ~ctxDone
          /\ requests' = Append(requests, Req("Get", Ctx, TRUE))
          /\ info' = remote
          /\ \/ /\ ~remote.started
                /\ Return(Err("session not started"))
             \/ /\ remote.started /\ remote.ended
                /\ Return(Err("session already ended"))
             \/ /\ remote.started /\ ~remote.ended /\ remote.finalized
                /\ Return(Err("session already finalized"))
             \/ /\ remote.started /\ ~remote.ended /\ ~remote.finalized
                /\ pc' = "find_NewRuntime"
                /\ UNCHANGED ret
    /\ UNCHANGED <<execVars, opts, attachRes, cmd, sid, ctxDone, timer, fetches, session, remote, patches,
                   calls, containers, ci, serr>>

\* session.go 382-385
FindNewRuntime ==
    /\ pc = "find_NewRuntime"
    /\ calls' = Append(calls, "NewRuntime")
    /\ \/ /\ pc' = "find_List"
          /\ UNCHANGED ret
       \/ Return(Err("NewRuntime failed"))
    /\ UNCHANGED <<execVars, info, requests, opts, attachRes, cmd, sid, ctxDone, timer, fetches, session, remote, patches,
                   containers, ci, serr>>

\* session.go 387-390
FindList ==
    /\ pc = "find_List"
    /\ calls' = Append(calls, "ListContainers")
    /\ \/ /\ \E cs \in ContainerLists : containers' = cs
          /\ ci' = 1
          /\ pc' = "find_Loop"
          /\ UNCHANGED ret
       \/ /\ Return(Err("ListContainers failed"))
          /\ UNCHANGED <<containers, ci>>
    /\ UNCHANGED <<execVars, info, requests, opts, attachRes, cmd, sid, ctxDone, timer, fetches, session, remote, patches,
                   serr>>

\* A variant of the loop that compares the label without regard to case.
FindLoopFold ==
    /\ pc = "find_Loop"
    /\ \/ /\ ci > Len(containers)
          /\ Return(Err("container not found"))
          /\ UNCHANGED <<calls, ci>>
       \/ /\ ci <= Len(containers)
          /\ calls' = Append(calls, "Info")
          /\ \/ /\ Return(Err("container info failed"))
                /\ UNCHANGED ci
             \/ /\ ToLower(sid) = ToLower(containers[ci])
                /\ pc' = "find_Found"
                /\ UNCHANGED <<ci, ret>>
             \/ /\ ToLower(sid) # ToLower(containers[ci])
                /\ ci' = ci + 1
                /\ UNCHANGED <<pc, ret>>
    /\ UNCHANGED <<execVars, info, requests, opts, attachRes, cmd, sid, ctxDone, timer, fetches, session, remote, patches,
                   containers, serr>>

\* session.go 392-407: one turn of the loop, or its end.
FindLoop ==
    /\ pc = "find_Loop"
    /\ \/ /\ ci > Len(containers)
          /\ Return(Err("container not found"))
          /\ UNCHANGED <<calls, ci>>
       \/ /\ ci <= Len(containers)
          /\ calls' = Append(calls, "Info")
          /\ \/ /\ Return(Err("container info failed"))
                /\ UNCHANGED ci
             \/ /\ sid = containers[ci]
                /\ pc' = "find_Found"
                /\ UNCHANGED <<ci, ret>>
             \/ /\ sid # containers[ci]
                /\ ci' = ci + 1
                /\ UNCHANGED <<pc, ret>>
    /\ UNCHANGED <<execVars, info, requests, opts, attachRes, cmd, sid, ctxDone, timer, fetches, session, remote, patches,
                   containers, serr>>

\* session.go 367-408
findRunningContainer == FindGet \/ FindNewRuntime \/ FindList \/ FindLoop

\* session.go 51 (attach) and 140-143 (exec)
AttachOrExecFound ==
    /\ pc = "find_Found"
    /\ calls' = Append(calls, IF cmd = "attach" THEN "Attach" ELSE "Exec")
    /\ \E e \in AttachErrs :
          /\ attachRes' = [err |-> e, handled |-> handleAttachErr(e)]
          /\ Return(handleAttachErr(e))
    /\ UNCHANGED <<execVars, info, requests, opts, cmd, sid, ctxDone, timer, fetches, session, remote, patches,
                   containers, ci, serr>>

\* session.go 41-54 and 123-146
newSessionAttachOrExecCommand ==
    BeginAttachOrExec \/ findRunningContainer \/ AttachOrExecFound

SessionNext ==
    \/ newSessionCreateCommand
    \/ newSessionAttachOrExecCommand
    \/ ServerSchedule
    \/ CtxCancel

-----------------------------------------------------------------------------
(* Executor lifecycle commands: the node's files and its init system.      *)

\* executorConfigDir, executorTokenPath, executorConfigPath, executorSystemdPath,
\* executorPath and the config's StoragePath.
Artifacts == {"configDir", "token", "config", "unit", "binary", "storage"}

\* An invocation that has not begun.
NotInvoked == [xcmd |-> "none", xpc |-> "idle", ops |-> <<>>, xret |-> NoErr]

ExecInit ==
    /\ xcmd = "none"
    /\ xpc = "idle"
    /\ fs = [a \in Artifacts |-> "absent"]
    /\ svc = [enabled |-> FALSE, running |-> FALSE]
    /\ ops = <<>>
    /\ xret = NoErr
    /\ other = NotInvoked

\* The command returns err to cobra.
XReturn(err) ==
    /\ xpc' = "idle"
    /\ xret' = err

\* An executor subcommand is invoked; `first` is where its RunE begins.
Begin(c, first) ==
    /\ xpc = "idle"
    /\ xcmd' = c
    /\ xpc' = first
    /\ ops' = <<>>
    /\ xret' = NoErr
    /\ UNCHANGED <<sessVars, other, fs, svc>>

\* A file is created (or truncated) and written: the open may fail, leaving it as
\* it was; the write may fail, leaving it partly written.
WriteOutcomes == {"openFail", "writeFail", "ok"}
Written(f, a, o) ==
    CASE o = "openFail" -> f
      [] o = "writeFail" -> [f EXCEPT ![a] = "partial"]
      [] OTHER -> [f EXCEPT ![a] = "ok"]

\* executor_linux.go 398-405: a failed subprocess has its output printed.
runCmdFailed(o) == IF o = "ok" THEN <<>> ELSE <<"print output">>

\* executor_linux.go 371-381: daemon-reload, enable, start. systemctl cannot
\* enable a service that has no unit file. The unit is Type=simple with
\* ExecStart the binary (57-63): a start that systemctl reports as done leaves the
\* service running only if there is a whole, executable binary to run.
StartOutcomes == {"reloadFail", "enableFail", "startFail", "ok"}
startExecutor(o) ==
    /\ o \in {"startFail", "ok"} => fs["unit"] # "absent"
    /\ ops' = ops \o
          (CASE o = "reloadFail" -> <<"systemctl daemon-reload">>
             [] o = "enableFail" -> <<"systemctl daemon-reload", "systemctl enable">>
             [] OTHER -> <<"systemctl daemon-reload", "systemctl enable",
                           "systemctl start">>) \o runCmdFailed(o)
    /\ svc' = CASE o = "startFail" -> [svc EXCEPT !.enabled = TRUE]
                [] o = "ok" -> [enabled |-> TRUE,
                                running |-> svc.running \/ fs["binary"] = "ok"]
                [] OTHER -> svc

\* executor_linux.go 383-389: disable, stop. systemctl cannot disable a service
\* that has no unit file (265: "This may fail if the systemd file has already
\* been deleted").
StopOutcomes == {"disableFail", "stopFail", "ok"}
stopExecutor(o) ==
    /\ o \in {"stopFail", "ok"} => fs["unit"] # "absent"
    /\ ops' = ops \o
          (CASE o = "disableFail" -> <<"systemctl disable">>
             [] OTHER -> <<"systemctl disable", "systemctl stop">>) \o runCmdFailed(o)
    /\ svc' = CASE o = "stopFail" -> [svc EXCEPT !.enabled = FALSE]
                [] o = "ok" -> [enabled |-> FALSE, running |-> FALSE]
                [] OTHER -> svc

\* executor_linux.go 391-396: runs the executor binary's cleanup subcommand, which
\* cannot succeed when there is no binary to run.
CleanupOutcomes == {"fail", "ok"}
cleanupExecutor(o) ==
    /\ o = "ok" => fs["binary"] # "absent"
    /\ ops' = Append(ops, "executor cleanup") \o runCmdFailed(o)

\* executor_linux.go 331-355: version fetch, download, create, copy, chmod.
DownloadOutcomes ==
    {"versionFail", "getFail", "createFail", "copyFail", "chmodFail", "ok"}

\* A variant of the download that removes the file it created when the copy or
\* the chmod fails.
downloadExecutorRollsBack(o) ==
    /\ ops' = ops \o
          CASE o = "versionFail" -> <<"GET latest">>
            [] o = "getFail" -> <<"GET latest", "GET executor">>
            [] o = "createFail" -> <<"GET latest", "GET executor", "Create binary">>
            [] o = "copyFail" -> <<"GET latest", "GET executor", "Create binary",
                                   "Copy binary", "remove binary">>
            [] o = "chmodFail" -> <<"GET latest", "GET executor", "Create binary",
                                    "Copy binary", "Chmod binary", "remove binary">>
            [] OTHER -> <<"GET latest", "GET executor", "Create binary",
                          "Copy binary", "Chmod binary">>
    /\ fs' = CASE o \in {"versionFail", "getFail", "createFail"} -> fs
               [] o \in {"copyFail", "chmodFail"} -> [fs EXCEPT !["binary"] = "absent"]
               [] OTHER -> [fs EXCEPT !["binary"] = "ok"]

downloadExecutor(o) ==
    /\ ops' = ops \o
          CASE o = "versionFail" -> <<"GET latest">>
            [] o = "getFail" -> <<"GET latest", "GET executor">>
            [] o = "createFail" -> <<"GET latest", "GET executor", "Create binary">>
            [] o = "copyFail" -> <<"GET latest", "GET executor", "Create binary",
                                   "Copy binary">>
            [] OTHER -> <<"GET latest", "GET executor", "Create binary",
                          "Copy binary", "Chmod binary">>
    /\ fs' = CASE o \in {"versionFail", "getFail", "createFail"} -> fs
               [] o \in {"copyFail", "chmodFail"} -> [fs EXCEPT !["binary"] = "partial"]
               [] OTHER -> [fs EXCEPT !["binary"] = "ok"]

\* The confirmation prompt: accepted (or bypassed), declined, or failed.
ConfirmOutcomes == {"yes", "no", "error"}

\* Reading the persisted executor config: it is there to be read only if the
\* config file is; a partly written one may or may not decode.
getExecutorConfig(f) ==
    CASE f["config"] = "ok" -> {"ok"}
      [] f["config"] = "partial" -> {"ok", "error"}
      [] OTHER -> {"error"}

-----------------------------------------------------------------------------
(* executor install                                                        *)

BeginInstall == Begin("install", "i_Stat")

\* A variant of install that does not look for an installed binary.
InstallStatSkipped ==
    /\ xpc = "i_Stat"
    /\ xpc' = "i_Cluster"
    /\ UNCHANGED <<sessVars, other, xcmd, fs, svc, ops, xret>>

\* A variant of install that takes a lock: it is turned away while another
\* invocation is under way.
InstallStatLocked ==
    /\ xpc = "i_Stat"
    /\ IF fs["binary"] # "absent" \/ other.xpc # "idle"
       THEN XReturn(Err("executor is already installed"))
       ELSE xpc' = "i_Cluster" /\ UNCHANGED xret
    /\ UNCHANGED <<sessVars, other, xcmd, fs, svc, ops>>

\* executor_linux.go 106-109
InstallStat ==
    /\ xpc = "i_Stat"
    /\ IF fs["binary"] # "absent"
       THEN XReturn(Err("executor is already installed"))
       ELSE xpc' = "i_Cluster" /\ UNCHANGED xret
    /\ UNCHANGED <<sessVars, other, xcmd, fs, svc, ops>>

\* A variant of install that makes the config directory before it looks the
\* cluster up.
InstallClusterAfterMkdir ==
    /\ xpc = "i_Cluster"
    /\ ops' = ops \o <<"MkdirAll configDir", "Cluster.Get">>
    /\ fs' = [fs EXCEPT !["configDir"] = "ok"]
    /\ \/ xpc' = "i_MkdirAll" /\ UNCHANGED xret
       \/ XReturn(Err("cluster not found"))
    /\ UNCHANGED <<sessVars, other, xcmd, svc>>

\* executor_linux.go 111-114
InstallCluster ==
    /\ xpc = "i_Cluster"
    /\ ops' = Append(ops, "Cluster.Get")
    /\ \/ xpc' = "i_MkdirAll" /\ UNCHANGED xret
       \/ XReturn(Err("cluster not found"))
    /\ UNCHANGED <<sessVars, other, xcmd, fs, svc>>

\* executor_linux.go 116-118
InstallMkdirAll ==
    /\ xpc = "i_MkdirAll"
    /\ ops' = Append(ops, "MkdirAll configDir")
    /\ \/ /\ fs' = [fs EXCEPT !["configDir"] = "ok"]
          /\ xpc' = "i_Token"
          /\ UNCHANGED xret
       \/ /\ XReturn(Err("mkdir failed"))
          /\ UNCHANGED fs
    /\ UNCHANGED <<sessVars, other, xcmd, svc>>

\* A variant of install that goes on to the next file when a write fails.
InstallWriteGoesOn(at, a, next) ==
    /\ xpc = at
    /\ ops' = Append(ops, "write " \o a)
    /\ \E o \in WriteOutcomes : fs' = Written(fs, a, o)
    /\ xpc' = next
    /\ UNCHANGED <<sessVars, other, xcmd, svc, xret>>

\* One file of install is written: on success go to `next`.
InstallWrite(at, a, next) ==
    /\ xpc = at
    /\ ops' = Append(ops, "write " \o a)
    /\ \E o \in WriteOutcomes :
          /\ fs' = Written(fs, a, o)
          /\ IF o = "ok"
             THEN xpc' = next /\ UNCHANGED xret
             ELSE XReturn(Err("write " \o a \o " failed"))
    /\ UNCHANGED <<sessVars, other, xcmd, svc>>

\* executor_linux.go 120-126
InstallToken == InstallWrite("i_Token", "token", "i_Config")
\* executor_linux.go 128-139
InstallConfig == InstallWrite("i_Config", "config", "i_Unit")
\* executor_linux.go 141-151
InstallUnit == InstallWrite("i_Unit", "unit", "i_Download")

\* executor_linux.go 153-155
InstallDownload ==
    /\ xpc = "i_Download"
    /\ \E o \in DownloadOutcomes :
          /\ downloadExecutor(o)
          /\ IF o = "ok"
             THEN xpc' = "i_Start" /\ UNCHANGED xret
             ELSE XReturn(Err("download: " \o o))
    /\ UNCHANGED <<sessVars, other, xcmd, svc>>

\* executor_linux.go 157-164
InstallStart ==
    /\ xpc = "i_Start"
    /\ \E o \in StartOutcomes :
          /\ startExecutor(o)
          /\ XReturn(IF o = "ok" THEN NoErr ELSE Err("start: " \o o))
    /\ UNCHANGED <<sessVars, other, xcmd, fs>>

\* executor_linux.go 89-167
newExecutorInstallCommand ==
    \/ BeginInstall
    \/ InstallStat
    \/ InstallCluster
    \/ InstallMkdirAll
    \/ InstallToken
    \/ InstallConfig
    \/ InstallUnit
    \/ InstallDownload
    \/ InstallStart

-----------------------------------------------------------------------------
(* executor start, restart, upgrade                                        *)

BeginStart == Begin("start", "t_Start")

\* executor_linux.go 197-204
StartStart ==
    /\ xpc = "t_Start"
    /\ \E o \in StartOutcomes :
          /\ startExecutor(o)
          /\ XReturn(IF o = "ok" THEN NoErr ELSE Err("start: " \o o))
    /\ UNCHANGED <<sessVars, other, xcmd, fs>>

\* executor_linux.go 191-207
newExecutorStartCommand == BeginStart \/ StartStart

BeginRestart == Begin("restart", "r_Stop")

\* A variant of restart that starts the service whether or not the stop succeeded.
RestartStopIgnored ==
    /\ xpc = "r_Stop"
    /\ \E o \in StopOutcomes : stopExecutor(o)
    /\ xpc' = "r_Start"
    /\ UNCHANGED <<sessVars, other, xcmd, fs, xret>>

\* executor_linux.go 175-177
RestartStop ==
    /\ xpc = "r_Stop"
    /\ \E o \in StopOutcomes :
          /\ stopExecutor(o)
          /\ IF o = "ok"
             THEN xpc' = "r_Start" /\ UNCHANGED xret
             ELSE XReturn(Err("stop: " \o o))
    /\ UNCHANGED <<sessVars, other, xcmd, fs>>

\* executor_linux.go 179-186
RestartStart ==
    /\ xpc = "r_Start"
    /\ \E o \in StartOutcomes :
          /\ startExecutor(o)
          /\ XReturn(IF o = "ok" THEN NoErr ELSE Err("start: " \o o))
    /\ UNCHANGED <<sessVars, other, xcmd, fs>>

\* executor_linux.go 169-189
newExecutorRestartCommand == BeginRestart \/ RestartStop \/ RestartStart

BeginUpgrade == Begin("upgrade", "g_Stop")

\* A variant of upgrade that replaces the binary whether or not the stop succeeded.
UpgradeStopIgnored ==
    /\ xpc = "g_Stop"
    /\ \E o \in StopOutcomes : stopExecutor(o)
    /\ xpc' = "g_Download"
    /\ UNCHANGED <<sessVars, other, xcmd, fs, xret>>

\* executor_linux.go 311-313
UpgradeStop ==
    /\ xpc = "g_Stop"
    /\ \E o \in StopOutcomes :
          /\ stopExecutor(o)
          /\ IF o = "ok"
             THEN xpc' = "g_Download" /\ UNCHANGED xret
             ELSE XReturn(Err("stop: " \o o))
    /\ UNCHANGED <<sessVars, other, xcmd, fs>>

\* A variant of the upgrade that also renders the service unit again.
UpgradeDownloadRewritesUnit ==
    /\ xpc = "g_Download"
    /\ \E o \in DownloadOutcomes :
          /\ ops' = ops \o <<"GET latest", "GET executor", "Create binary",
                              "Copy binary", "Chmod binary", "write unit">>
          /\ fs' = [fs EXCEPT !["binary"] = "ok",
                              !["unit"] = IF o = "ok" THEN "ok" ELSE "partial"]
          /\ IF o = "ok"
             THEN xpc' = "g_Start" /\ UNCHANGED xret
             ELSE XReturn(Err("download: " \o o))
    /\ UNCHANGED <<sessVars, other, xcmd, svc>>

\* executor_linux.go 315-317
UpgradeDownload ==
    /\ xpc = "g_Download"
    /\ \E o \in DownloadOutcomes :
          /\ downloadExecutor(o)
          /\ IF o = "ok"
             THEN xpc' = "g_Start" /\ UNCHANGED xret
             ELSE XReturn(Err("download: " \o o))
    /\ UNCHANGED <<sessVars, other, xcmd, svc>>

\* executor_linux.go 319-326
UpgradeStart ==
    /\ xpc = "g_Start"
    /\ \E o \in StartOutcomes :
          /\ startExecutor(o)
          /\ XReturn(IF o = "ok" THEN NoErr ELSE Err("start: " \o o))
    /\ UNCHANGED <<sessVars, other, xcmd, fs>>

\* executor_linux.go 303-329
newExecutorUpgradeCommand ==
    BeginUpgrade \/ UpgradeStop \/ UpgradeDownload \/ UpgradeStart

-----------------------------------------------------------------------------
(* executor stop                                                           *)

BeginStop == Begin("stop", "s_Confirm")

\* A variant of stop's prompt that goes on whatever the answer.
StopConfirmProceeds ==
    /\ xpc = "s_Confirm"
    /\ \E c \in ConfirmOutcomes :
          /\ ops' = Append(ops, "confirm: " \o c)
          /\ CASE c = "error" -> XReturn(Err("confirm failed"))
               [] OTHER -> xpc' = "s_Stop" /\ UNCHANGED xret
    /\ UNCHANGED <<sessVars, other, xcmd, fs, svc>>

\* executor_linux.go 217-224
StopConfirm ==
    /\ xpc = "s_Confirm"
    /\ \E c \in ConfirmOutcomes :
          /\ ops' = Append(ops, "confirm: " \o c)
          /\ CASE c = "error" -> XReturn(Err("confirm failed"))
            [] c = "no" -> XReturn(NoErr)
            [] OTHER -> xpc' = "s_Stop" /\ UNCHANGED xret
    /\ UNCHANGED <<sessVars, other, xcmd, fs, svc>>

\* executor_linux.go 226-228
StopStop ==
    /\ xpc = "s_Stop"
    /\ \E o \in StopOutcomes :
          /\ stopExecutor(o)
          /\ IF o = "ok"
             THEN xpc' = "s_Cleanup" /\ UNCHANGED xret
             ELSE XReturn(Err("stop: " \o o))
    /\ UNCHANGED <<sessVars, other, xcmd, fs>>

\* A variant of stop's cleanup step that only reports a cleanup failure.
StopCleanupLogOnly ==
    /\ xpc = "s_Cleanup"
    /\ \E o \in CleanupOutcomes :
          /\ cleanupExecutor(o)
          /\ XReturn(NoErr)
    /\ UNCHANGED <<sessVars, other, xcmd, fs, svc>>

\* executor_linux.go 230-237
StopCleanup ==
    /\ xpc = "s_Cleanup"
    /\ \E o \in CleanupOutcomes :
          /\ cleanupExecutor(o)
          /\ XReturn(IF o = "ok" THEN NoErr ELSE Err("cleanup failed"))
    /\ UNCHANGED <<sessVars, other, xcmd, fs, svc>>

\* executor_linux.go 209-240
newExecutorStopCommand == BeginStop \/ StopConfirm \/ StopStop \/ StopCleanup

-----------------------------------------------------------------------------
(* executor uninstall                                                      *)

BeginUninstall == Begin("uninstall", "u_Config")

\* executor_linux.go 248-251
UninstallConfig ==
    /\ xpc = "u_Config"
    /\ \E r \in getExecutorConfig(fs) :
          IF r = "ok"
          THEN xpc' = "u_Confirm" /\ UNCHANGED xret
          ELSE XReturn(Err("read executor config failed"))
    /\ UNCHANGED <<sessVars, other, xcmd, fs, svc, ops>>

\* executor_linux.go 253-263
UninstallConfirm ==
    /\ xpc = "u_Confirm"
    /\ \E c \in ConfirmOutcomes :
          /\ ops' = Append(ops, "confirm: " \o c)
          /\ CASE c = "error" -> XReturn(Err("confirm failed"))
            [] c = "no" -> XReturn(NoErr)
            [] OTHER -> xpc' = "u_Stop" /\ UNCHANGED xret
    /\ UNCHANGED <<sessVars, other, xcmd, fs, svc>>

\* A variant of uninstall that gives up when the service cannot be stopped.
UninstallStopFailFast ==
    /\ xpc = "u_Stop"
    /\ \E o \in StopOutcomes :
          /\ stopExecutor(o)
          /\ IF o = "ok"
             THEN xpc' = "u_Cleanup" /\ UNCHANGED xret
             ELSE XReturn(Err("stop: " \o o))
    /\ UNCHANGED <<sessVars, other, xcmd, fs>>

\* executor_linux.go 265-268: a failed stop is written to stderr and passed over.
UninstallStop ==
    /\ xpc = "u_Stop"
    /\ \E o \in StopOutcomes : stopExecutor(o)
    /\ xpc' = "u_Cleanup"
    /\ UNCHANGED <<sessVars, other, xcmd, fs, xret>>

\* executor_linux.go 270-273: a failed cleanup is written to stderr and passed over.
UninstallCleanup ==
    /\ xpc = "u_Cleanup"
    /\ \E o \in CleanupOutcomes : cleanupExecutor(o)
    /\ xpc' = "u_rm_storage"
    /\ UNCHANGED <<sessVars, other, xcmd, fs, svc, xret>>

\* A variant of the removal that does not pass over ENOENT.
UninstallRemoveStrict(a, next) ==
    /\ xpc = "u_rm_" \o a
    /\ ops' = Append(ops, "remove " \o a)
    /\ \/ /\ fs[a] # "absent" \/ a = "storage"
          /\ fs' = [fs EXCEPT ![a] = "absent"]
          /\ IF next = "idle" THEN XReturn(NoErr)
                              ELSE xpc' = "u_rm_" \o next /\ UNCHANGED xret
       \/ /\ a # "storage"
          /\ XReturn(Err("remove " \o a \o " failed"))
          /\ UNCHANGED fs
    /\ UNCHANGED <<sessVars, other, xcmd, svc>>

\* One removal of uninstall. os.Remove of an absent file fails with ENOENT, which
\* is passed over; os.RemoveAll of an absent path succeeds. Any other failure
\* ends the command.
UninstallRemove(a, next) ==
    /\ xpc = "u_rm_" \o a
    /\ ops' = Append(ops, "remove " \o a)
    /\ \/ /\ fs' = [fs EXCEPT ![a] = "absent"]
          /\ IF next = "idle" THEN XReturn(NoErr)
                              ELSE xpc' = "u_rm_" \o next /\ UNCHANGED xret
       \/ /\ fs[a] # "absent"
          /\ XReturn(Err("remove " \o a \o " failed"))
          /\ UNCHANGED fs
    /\ UNCHANGED <<sessVars, other, xcmd, svc>>

\* executor_linux.go 275-277
RemoveStorage == UninstallRemove("storage", "token")
\* executor_linux.go 279-281
RemoveToken == UninstallRemove("token", "unit")
\* executor_linux.go 283-285
RemoveUnit == UninstallRemove("unit", "config")
\* executor_linux.go 287-289
RemoveConfig == UninstallRemove("config", "binary")
\* executor_linux.go 291-299
RemoveBinary == UninstallRemove("binary", "idle")

\* executor_linux.go 242-301
newExecutorUninstallCommand ==
    \/ BeginUninstall
    \/ UninstallConfig
    \/ UninstallConfirm
    \/ UninstallStop
    \/ UninstallCleanup
    \/ RemoveStorage
    \/ RemoveToken
    \/ RemoveUnit
    \/ RemoveConfig
    \/ RemoveBinary

\* The running executor creates its storage directory.
ExecutorCreatesStorage ==
    /\ svc.running
    /\ fs["binary"] = "ok"
    /\ fs["config"] = "ok"
    /\ fs["storage"] = "absent"
    /\ fs' = [fs EXCEPT !["storage"] = "ok"]
    /\ UNCHANGED <<sessVars, other, xcmd, xpc, svc, ops, xret>>

ExecutorNext ==
    \/ newExecutorInstallCommand
    \/ newExecutorStartCommand
    \/ newExecutorRestartCommand
    \/ newExecutorUpgradeCommand
    \/ newExecutorStopCommand
    \/ newExecutorUninstallCommand
    \/ ExecutorCreatesStorage

-----------------------------------------------------------------------------
(* Two invocations of `executor install` at once. The commands take no     *)
(* lock: nothing but the scheduling of the two processes orders their      *)
(* steps, and both work on the same files and the same service.            *)

\* The operating system lets the other invocation run.
Switch ==
    /\ other' = [xcmd |-> xcmd, xpc |-> xpc, ops |-> ops, xret |-> xret]
    /\ xcmd' = other.xcmd
    /\ xpc' = other.xpc
    /\ ops' = other.ops
    /\ xret' = other.xret
    /\ UNCHANGED <<sessVars, fs, svc>>

ConcurrentInstallNext ==
    \/ newExecutorInstallCommand
    \/ Switch

-----------------------------------------------------------------------------
(* Specifications.                                                         *)

SessionInit == SessInit /\ ExecInit
SessionSpec == SessionInit /\ [][SessionNext]_vars

ExecutorInit == SessInit /\ remote = NoSession /\ ExecInit
ExecutorSpec == ExecutorInit /\ [][ExecutorNext]_vars

ConcurrentInstallSpec == ExecutorInit /\ [][ConcurrentInstallNext]_vars

-----------------------------------------------------------------------------
(* Properties.                                                             *)

Last(seq) == seq[Len(seq)]
InSeq(x, seq) == \E i \in 1..Len(seq) : seq[i] = x

\* The command's last driver call was the attach (or the exec).
Attached == calls # <<>> /\ Last(calls) \in {"Attach", "Exec"}

\* The scheduling wait of `session create` ended on ctx.Done().
WaitCanceled ==
    cmd = "create" /\ session = NoSession /\ serr = Err("context canceled")

TheCancelPatch == [session |-> sid, ctx |-> "Background", canceled |-> TRUE]

\* C1: once CreateSession has succeeded, a `session create` that ends without a
\* successful attach has sent a cancel patch against the session by the time it
\* ends, whichever step of startSession failed (a scheduled session without
\* Limits included).
C1_CancelAfterFailedLaunch ==
    ( /\ cmd = "create"
      /\ sid # ""
      /\ pc \in {"done", "panic"}
      /\ ~(pc = "done" /\ ret.nil) )
    => \E i \in 1..Len(patches) :
          patches[i].session = sid /\ patches[i].canceled

\* C2 (as claimed): when the scheduling wait ends on the cancellation of ctx, no
\* patch is sent against the session.
C2_NoPatchOnWaitCancel == WaitCanceled => patches = <<>>

\* C2 (amended): the wait itself sends no patch, so none has been sent when
\* startSession returns; but when the wait ended on the cancellation of ctx,
\* `create` then sends exactly one cancel patch, under context.Background(), and
\* returns the context's error.
C2_PatchFollowsWaitCancel ==
    /\ pc \in {"await", "patch"} => patches = <<>>
    /\ (WaitCanceled /\ pc = "done") => (patches = <<TheCancelPatch>> /\ ret = serr)

C2_Witness ==
    WaitCanceled /\ pc = "done" /\ ctxDone /\ patches = <<TheCancelPatch>>

\* C3: awaitSessionSchedule hands startSession a session only from a fetch that
\* reported it scheduled, so no step after the wait (labels, user lookup, runtime,
\* pull, create, start, attach) is reached for a session no poll saw scheduled.
C3_ScheduledBeforeLaunch ==
    /\ session # NoSession => (session.scheduled /\ fetches >= 1)
    /\ pc \in {"labels", "user", "NewRuntime", "PullImage", "CreateContainer",
               "Start", "Attach"} => session.scheduled
    /\ (cmd = "create" /\ calls # <<>>) => session.scheduled

C3_Witness ==
    /\ cmd = "create"
    /\ fetches >= 3
    /\ InSeq("PullImage", calls) /\ InSeq("CreateContainer", calls)
    /\ InSeq("Start", calls)
    /\ session.scheduled

\* C4: `executor install` run while the binary exists returns the "already
\* installed" error from its first step, with no file written, no cluster lookup,
\* no download and no init-system call.
C4_InstallRejectedUntouched ==
    [][ (xpc = "i_Stat" /\ fs["binary"] # "absent" /\ xpc' # xpc)
        => /\ xpc' = "idle"
           /\ xret' = Err("executor is already installed")
           /\ ops' = <<>>
           /\ fs' = fs
           /\ svc' = svc ]_vars

C4_Witness ==
    /\ xcmd = "install"
    /\ xpc = "idle"
    /\ xret = Err("executor is already installed")
    /\ fs["binary"] # "absent"
    /\ ops = <<>>

\* C5: `executor uninstall` tolerates artifacts that are already absent: it never
\* fails on account of one, so it fails only when the confirmation fails or the
\* removal of an artifact that is present fails.
C5_UninstallToleratesAbsence ==
    (xcmd = "uninstall" /\ xpc = "idle" /\ ~xret.nil)
    => xret.msg \in {"confirm failed"} \cup
                    {"remove " \o a \o " failed" : a \in Artifacts}

RemovalOrder == <<"storage", "token", "unit", "config", "binary">>

CleanupFailedLast ==
    /\ Len(ops) >= 2
    /\ ops[Len(ops) - 1] = "executor cleanup"
    /\ Last(ops) = "print output"

C8_Only130Benign ==
    ( /\ pc = "done" /\ Attached
      /\ ~attachRes.err.nil
      /\ attachRes.err # Err("exited with code 130") )
    => ~ret.nil

\* C8 (amended): for create, attach and exec, every container exit reported as
\* "exited with code <n>" is benign, code 1 as much as code 130: the command
\* succeeds and create sends no cancel patch; any other attach or exec error is
\* the command's error, and create sends its cancel patch.
C8_AnyExitCodeBenign ==
    (pc = "done" /\ Attached)
    => IF attachRes.err \in {NoErr, Err("exited with code 130"),
                             Err("exited with code 1"), Err("exited with code ")}
       THEN ret = NoErr /\ patches = <<>>
       ELSE ret = attachRes.err /\ (cmd = "create" => patches = <<TheCancelPatch>>)

C8_Witness ==
    /\ cmd = "exec" /\ pc = "done" /\ Attached
    /\ attachRes.err = Err("exited with code 1")
    /\ ret = NoErr

\* The message is the fixed prefix followed by something.
BeginsWithExitPrefix(m) ==
    \E rest \in {"", "1", "130"} : m = "exited with code " \o rest

\* C9: handleAttachErr returns nil for a nil error and for every error whose
\* message begins with "exited with code ", and returns every other error as it
\* is.
C9_ClassifiesByPrefix ==
    Attached =>
       LET e == attachRes.err
           h == attachRes.handled
       IN  /\ e.nil => h = NoErr
           /\ (~e.nil /\ BeginsWithExitPrefix(e.msg)) => h = NoErr
           /\ (~e.nil /\ ~BeginsWithExitPrefix(e.msg)) => h = e

C9_Witness ==
    /\ Attached
    /\ attachRes.err = Err("container exited with code 130")
    /\ attachRes.handled = Err("container exited with code 130")

\* C10: a declined confirmation of `stop` or `uninstall` ends the command with
\* success, and a failed one with that error, nothing else having been done: no
\* init-system call, no cleanup, no removal, the files and the service as they
\* were.
C10_ConfirmationGates ==
    /\ [](xcmd \in {"stop", "uninstall"}
          => /\ InSeq("confirm: no", ops)
                => (ops = <<"confirm: no">> /\ xpc = "idle" /\ xret = NoErr)
             /\ InSeq("confirm: error", ops)
                => (ops = <<"confirm: error">> /\ xpc = "idle"
                    /\ xret = Err("confirm failed")))
    /\ [][ (xpc \in {"s_Confirm", "u_Confirm"} /\ xpc' # xpc)
           => (fs' = fs /\ svc' = svc) ]_vars

C10_Witness ==
    /\ xcmd = "stop" /\ xpc = "idle"
    /\ ops = <<"confirm: no">>
    /\ xret = NoErr
    /\ svc.running

-----------------------------------------------------------------------------
(* C11: `executor upgrade` changes only the executor binary: on every path *)
(* of the command (success, or failure at stop, download or start) the     *)
(* config directory, the config file, the token file and the service unit  *)
(* file are left as they were, neither rewritten nor removed; the only     *)
(* file operations it attempts are those on the binary.                    *)

UpgradeFileOps == {"Create binary", "Copy binary", "Chmod binary"}
SystemctlOps ==
    {"systemctl daemon-reload", "systemctl enable", "systemctl start",
     "systemctl disable", "systemctl stop", "print output"}

\* C11: every side effect of an upgrade is an init-system call, a download or a
\* file operation on the binary, and no step of an upgrade changes the config
\* directory, the config file, the token file or the service unit file.
C11_UpgradeKeepsConfigTokenUnit ==
    /\ [](xcmd = "upgrade" =>
             \A i \in 1..Len(ops) :
                 ops[i] \in UpgradeFileOps \cup SystemctlOps
                            \cup {"GET latest", "GET executor"})
    /\ [][xcmd' = "upgrade" =>
             \A a \in {"configDir", "config", "token", "unit"} : fs'[a] = fs[a]]_vars

\* An upgrade that replaced the binary and started the service, with the config,
\* token and unit files in place.
C11_Witness ==
    /\ xcmd = "upgrade" /\ xpc = "idle" /\ xret = NoErr
    /\ InSeq("Chmod binary", ops) /\ InSeq("systemctl start", ops)
    /\ \A a \in {"config", "token", "unit", "binary"} : fs[a] = "ok"

-----------------------------------------------------------------------------
(* C12: `executor install` fails closed on an invalid cluster: the cluster *)
(* lookup is the first thing install does after finding no binary, and     *)
(* when it fails the command returns with no file created or changed, no   *)
(* download made and no init-system call made.                             *)

\* C12: the cluster lookup is install's first side effect; it is made with
\* nothing yet done, changes no file and no service state, and when it fails
\* the command ends there with "cluster not found".
C12_ClusterLookupBeforeLocalState ==
    /\ []((xcmd = "install" /\ ops # <<>>) => ops[1] = "Cluster.Get")
    /\ []((xcmd = "install" /\ xret = Err("cluster not found")) =>
             ops = <<"Cluster.Get">>)
    /\ [][(xcmd = "install" /\ xpc = "i_Cluster" /\ xpc' # xpc) =>
             /\ ops = <<>>
             /\ fs' = fs /\ svc' = svc
             /\ \/ xpc' = "i_MkdirAll"
                \/ xpc' = "idle" /\ xret' = Err("cluster not found")]_vars

\* An install rejected because the cluster does not exist, on a clean node.
C12_Witness ==
    /\ xcmd = "install" /\ xpc = "idle" /\ xret = Err("cluster not found")
    /\ ops = <<"Cluster.Get">>
    /\ \A a \in Artifacts : fs[a] = "absent"
    /\ ~svc.enabled /\ ~svc.running

-----------------------------------------------------------------------------
(* C13: `attach` and `exec` fail before any container runtime driver call  *)
(* whenever the fetched session has Started unset, or Ended set, or        *)
(* Finalized set; and a session whose Ended timestamp is set fails with    *)
(* "session already ended".                                                *)

\* attach or exec has fetched the session and findRunningContainer has judged it.
Judged == cmd \in {"attach", "exec"} /\ info # NoSession

\* C13 (as claimed): every fetched session with Ended set is reported as already
\* ended.
C13_EndedReportedAsEnded ==
    (Judged /\ info.ended) => ret = Err("session already ended")

\* C13 (amended): a fetched session with Started unset, Ended set or Finalized
\* set ends the command with an error and no driver call; the Started check
\* comes first, so an ended session is reported as already ended only if it was
\* started, and as not started otherwise.
C13_RejectedBeforeDriver ==
    /\ (Judged /\ (~info.started \/ info.ended \/ info.finalized)) =>
           /\ pc = "done" /\ ~ret.nil
           /\ calls = <<>>
    /\ (Judged /\ info.ended) =>
           ret = IF info.started THEN Err("session already ended")
                                 ELSE Err("session not started")
    /\ (cmd \in {"attach", "exec"} /\ calls # <<>>) =>
           Judged /\ info.started /\ ~info.ended /\ ~info.finalized

\* exec or attach against a started session whose Ended timestamp is set.
C13_Witness ==
    /\ Judged /\ pc = "done"
    /\ info.started /\ info.ended
    /\ ret = Err("session already ended")
    /\ calls = <<>>

-----------------------------------------------------------------------------
(* C14: for session states that satisfy the data-model invariant (started  *)
(* implies scheduled, finalized implies ended), `attach` and `exec` report *)
(* a finalized session as already finalized, an ended but not finalized    *)
(* session as already ended, and a never started session as not started.   *)

DataModelInvariant(s) ==
    /\ s.started => s.scheduled
    /\ s.finalized => s.ended

\* C14: for a fetched session satisfying the data-model invariant, finalized is
\* reported as already finalized, ended but not finalized as already ended, and
\* never started as not started.
C14_ThreeDistinctErrors ==
    (Judged /\ pc = "done" /\ DataModelInvariant(info)) =>
        /\ (info.started /\ info.finalized) =>
               ret = Err("session already finalized")
        /\ (info.started /\ info.ended /\ ~info.finalized) =>
               ret = Err("session already ended")
        /\ (~info.started /\ ~info.ended /\ ~info.finalized) =>
               ret = Err("session not started")

-----------------------------------------------------------------------------
(* C15: when `session create` is run without --node and the current node   *)
(* cannot be resolved, the command returns that error and never reaches    *)
(* the scheduler: no CreateSession request, no session fetch, no patch and *)
(* no container runtime call is made.                                      *)

NodeErr == Err("failed to detect node; use --node flag")

\* C15: a command that returned the node-resolution error made no scheduler
\* request, no fetch, no patch and no driver call; the resolution step itself
\* makes none; and a command that has returned does nothing more.
C15_NodeFailureReachesNothing ==
    /\ [](ret = NodeErr =>
             /\ cmd = "create" /\ pc = "done"
             /\ requests = <<>> /\ patches = <<>> /\ fetches = 0
             /\ calls = <<>>
             /\ sid = "" /\ session = NoSession)
    /\ [][pc = "getCurrentNode" =>
             /\ requests' = <<>> /\ calls' = <<>>
             /\ pc' \in {"getCurrentNode", "CreateSession", "done"}
             /\ pc' = "done" => ret' = NodeErr]_vars
    /\ [][pc = "done" => UNCHANGED <<pc, ret, requests, patches, calls>>]_vars

\* create without --node has failed to resolve the node.
C15_Witness ==
    /\ cmd = "create" /\ pc = "done" /\ ret = NodeErr
    /\ requests = <<>> /\ calls = <<>>

-----------------------------------------------------------------------------
(* C16: the container specification is a function of the session ID and of *)
(* the grant returned by the poll that observed the session as scheduled:  *)
(* the name is "session-" followed by the lowercased session ID; the       *)
(* labels carry the session ID and the granted GPU list joined by commas   *)
(* (the empty string for an empty list); the GPU limit is the granted list *)
(* unchanged, the CPU limit the granted CPU count and the memory limit the *)
(* granted byte count.                                                     *)

\* The lowercased form of each session ID of the model, written out.
LoweredID == [id \in SessionIDs |-> "01abc"]
\* The comma-joined form of each GPU list of the model, written out.
JoinedGPUs(gpus) == IF gpus = <<>> THEN "" ELSE IF gpus = <<"0", "1">> THEN "0,1" ELSE "?"

\* C16: the options built are those of the session the wait returned: name,
\* labels, GPU list, CPU count and memory as the grant of that poll has them.
C16_ContainerSpecFromGrant ==
    opts.built =>
        /\ session.scheduled /\ session.limits.present
        /\ session.id = sid
        /\ session.limits = remote.limits
        /\ opts.Name = "session-" \o LoweredID[sid]
        /\ opts.Labels.session = sid
        /\ opts.Labels.gpus = JoinedGPUs(session.limits.GPUs)
        /\ opts.GPUs = session.limits.GPUs
        /\ opts.CPUCount = session.limits.CPUCount
        /\ opts.Memory = session.limits.Memory

\* A container started for a session with an upper-case ID and two granted GPUs,
\* scheduled only at the third poll.
C16_Witness ==
    /\ opts.built /\ InSeq("Start", calls)
    /\ sid = "01ABC" /\ opts.Name = "session-01abc"
    /\ opts.Labels.gpus = "0,1" /\ opts.GPUs = <<"0", "1">>
    /\ opts.CPUCount = 4 /\ opts.Memory = 8
    /\ fetches = 3

\* A container specification for a session granted no GPU.
C16_WitnessNoGPU ==
    /\ opts.built /\ opts.Labels.gpus = "" /\ opts.GPUs = <<>>

-----------------------------------------------------------------------------
(* C17: once ctx is canceled during the scheduling wait, the wait returns   *)
(* no session. As claimed, it also issues no further session fetch after   *)
(* the cancellation, even when the poll timer has fired at the moment ctx  *)
(* is canceled. As the code has it, the select may take the timer's case   *)
(* when both are ready: at most one further fetch is issued, under the     *)
(* canceled context, and the wait returns its error; when the timer has    *)
(* not fired the wait returns ctx's error without a fetch.                 *)

\* The session fetches issued under an already canceled context.
GetsUnderCanceled ==
    { i \in 1..Len(requests) :
        requests[i].op = "Get" /\ requests[i].ctx = "canceled" }

\* C17 (as claimed): `create` issues no session fetch under a canceled context.
C17_NoFetchAfterCancel ==
    cmd = "create" => GetsUnderCanceled = {}

\* C17 (amended): at most one fetch is issued under a canceled context; it is the
\* last fetch, it fails, and the wait has returned its error and no session. A
\* wait whose context is canceled leaves at its next step, with no session; when
\* the timer has not fired it leaves with ctx's error and without a fetch.
C17_AtMostOneFetchAfterCancel ==
    /\ [](cmd = "create" =>
             /\ Cardinality(GetsUnderCanceled) <= 1
             /\ \A i \in GetsUnderCanceled :
                   /\ \A j \in (i + 1)..Len(requests) : requests[j].op # "Get"
                   /\ ~requests[i].ok
                   /\ pc \in {"patch", "done"}
                   /\ session = NoSession
                   /\ serr = Err("get session failed"))
    /\ [][(pc = "await" /\ ctxDone) =>
             \/ UNCHANGED <<pc, timer, fetches, requests, session, serr>>
             \/ /\ pc' = "patch" /\ session' = NoSession
                /\ timer = "armed" =>
                      serr' = Err("context canceled") /\ requests' = requests]_vars

\* The timer had fired when ctx was canceled, and the wait made one more fetch.
C17_Witness ==
    /\ cmd = "create" /\ pc = "done"
    /\ GetsUnderCanceled # {}
    /\ fetches >= 2
    /\ ret = Err("get session failed")

-----------------------------------------------------------------------------
(* C18: the scheduling wait has exactly three exits and no attempt limit:  *)
(* it returns the session when a fetch reports it scheduled, the fetch's   *)
(* error at the first failing fetch (no retry), or ctx's error on          *)
(* cancellation; after a fetch that succeeds and reports the session       *)
(* unscheduled it re-arms the timer and goes on waiting, however many      *)
(* polls it has made.                                                      *)

\* C18: while the wait goes on every fetch so far succeeded and none was returned;
\* the wait is left only with the scheduled session a fetch returned, with the
\* error of a failed fetch, or with ctx's error under a canceled context and
\* without a fetch; a fetch that succeeds and finds the session unscheduled
\* re-arms the timer, and a fetch that fails ends the wait.
C18_ThreeExitsNoLimit ==
    /\ [](pc = "await" =>
             /\ session = NoSession /\ serr.nil
             /\ Len(requests) = fetches + 1
             /\ \A i \in 2..Len(requests) :
                   requests[i].op = "Get" /\ requests[i].ok)
    /\ [][(pc = "await" /\ pc' # "await") =>
             \/ /\ pc' = "labels"
                /\ remote.scheduled /\ session' = remote
                /\ requests' = Append(requests, Req("Get", "live", TRUE))
             \/ /\ pc' = "patch" /\ session' = NoSession
                /\ serr' = Err("get session failed")
                /\ Len(requests') = Len(requests) + 1
                /\ Last(requests').op = "Get" /\ ~Last(requests').ok
             \/ /\ pc' = "patch" /\ session' = NoSession
                /\ serr' = Err("context canceled")
                /\ ctxDone /\ requests' = requests]_vars
    /\ [][(pc = "await" /\ fetches' # fetches) =>
             /\ fetches' = fetches + 1
             /\ (Last(requests').ok /\ ~remote.scheduled) =>
                    pc' = "await" /\ timer' = "armed"
             /\ ~Last(requests').ok => pc' = "patch"]_vars

\* Three polls have found the session unscheduled and the wait goes on.
C18_Witness ==
    /\ cmd = "create" /\ pc = "await" /\ timer = "armed"
    /\ fetches = 3 /\ ~ctxDone
    /\ ~remote.scheduled

-----------------------------------------------------------------------------
(* C19: in a confirmed uninstall, a failure of the service stop and/or of  *)
(* the executor cleanup is reported but does not block the teardown.       *)

RemoveOps == { "remove " \o RemovalOrder[k] : k \in 1..5 }

\* C19: whatever the stop and the cleanup of a confirmed uninstall return, the
\* command goes on from the stop to the cleanup and from the cleanup to the first
\* removal; an error it returns is a removal's, never the stop's or the cleanup's;
\* and when it succeeds all five removals have been attempted.
C19_StopAndCleanupDoNotBlock ==
    /\ []((xcmd = "uninstall" /\ xpc = "idle" /\ InSeq("confirm: yes", ops)) =>
             /\ InSeq("executor cleanup", ops)
             /\ InSeq("remove storage", ops)
             /\ xret.nil => \A r \in RemoveOps : InSeq(r, ops)
             /\ ~xret.nil => \E k \in 1..5 :
                    /\ xret = Err("remove " \o RemovalOrder[k] \o " failed")
                    /\ Last(ops) = "remove " \o RemovalOrder[k])
    /\ [][(xpc = "u_Stop" /\ xpc' # xpc) =>
             xpc' = "u_Cleanup" /\ xret' = xret /\ fs' = fs]_vars
    /\ [][(xpc = "u_Cleanup" /\ xpc' # xpc) =>
             xpc' = "u_rm_storage" /\ xret' = xret /\ fs' = fs]_vars

\* A confirmed uninstall in which both the stop and the cleanup failed, and which
\* removed all five artifacts and succeeded.
C19_Witness ==
    /\ xcmd = "uninstall" /\ xpc = "idle" /\ xret = NoErr
    /\ ops = <<"confirm: yes", "systemctl disable", "print output",
               "executor cleanup", "print output",
               "remove storage", "remove token", "remove unit", "remove config",
               "remove binary">>
    /\ \A a \in Artifacts \ {"configDir"} : fs[a] = "absent"

-----------------------------------------------------------------------------
(* C20: `executor restart` is limited to stopping and then starting the    *)
(* service.                                                                *)

\* C20: restart runs nothing but init-system calls (no cleanup, no confirmation,
\* no download), creates, rewrites and removes no file, and attempts the start
\* only after the stop has succeeded: a failed stop ends the command with its
\* error and no start call.
C20_RestartIsStopThenStart ==
    /\ [](xcmd = "restart" =>
             /\ \A i \in 1..Len(ops) : ops[i] \in SystemctlOps
             /\ InSeq("systemctl daemon-reload", ops) =>
                    SubSeq(ops, 1, 3) = <<"systemctl disable", "systemctl stop",
                                          "systemctl daemon-reload">>
             /\ (xpc = "idle" /\ Len(ops) <= 3) =>
                    /\ Last(ops) = "print output"
                    /\ xret \in {Err("stop: disableFail"), Err("stop: stopFail")})
    /\ [][(xcmd' = "restart" /\ xpc' # xpc) => fs' = fs]_vars

\* A restart that stopped and started the service.
C20_Witness ==
    /\ xcmd = "restart" /\ xpc = "idle" /\ xret = NoErr
    /\ ops = <<"systemctl disable", "systemctl stop", "systemctl daemon-reload",
               "systemctl enable", "systemctl start">>
    /\ svc.running

\* A restart whose stop failed: it returned the error and made no start call.
C20_WitnessStopFailed ==
    /\ xcmd = "restart" /\ xpc = "idle"
    /\ xret = Err("stop: stopFail")
    /\ ops = <<"systemctl disable", "systemctl stop", "print output">>

-----------------------------------------------------------------------------
(* C21: `session create` and the cancel patch once the container has been   *)
(* started.                                                                *)

\* startSession reached its attach: the container start call had succeeded.
StartedThenAttached == cmd = "create" /\ InCalls("Attach")

\* C21 (as claimed): once the container start call has succeeded, `create` sends
\* no cancel patch, whatever the attach returns.
C21_NoPatchOnceStarted == StartedThenAttached => patches = <<>>

\* C21 (amended): once the container start call has succeeded, `create` sends its
\* cancel patch exactly when the attach returns an error that handleAttachErr
\* does not forgive, and then returns that error; an attach that returns nil or
\* an exit-code error is followed by no patch.
C21_PatchFollowsAttachError ==
    (StartedThenAttached /\ pc = "done") =>
        /\ attachRes.handled.nil => (patches = <<>> /\ ret = NoErr)
        /\ ~attachRes.handled.nil =>
               (patches = <<TheCancelPatch>> /\ ret = attachRes.handled)

\* The container was started, the attach failed with an error that is no exit
\* code, and the session was patched as canceled.
C21_Witness ==
    /\ StartedThenAttached /\ pc = "done"
    /\ calls = <<"NewRuntime", "PullImage", "CreateContainer", "Start", "Attach">>
    /\ attachRes.err = Err("container exited with code 130")
    /\ patches = <<TheCancelPatch>>
    /\ remote.canceled

-----------------------------------------------------------------------------
(* C22: the order of the launcher's steps.                                 *)

LaunchOrder == <<"NewRuntime", "PullImage", "CreateContainer", "Start", "Attach">>

\* C22: the driver calls of `create` are a prefix of the launch order, each made
\* once; the first is made only for a session the wait returned as scheduled and
\* whose options have been built; an error of startSession is that of the wait,
\* of the user lookup or of the last driver call made; and once startSession has
\* an error, or the process has died, no further driver call is made.
C22_StepsInOrder ==
    /\ [](cmd = "create" =>
             /\ Len(calls) <= Len(LaunchOrder)
             /\ calls = SubSeq(LaunchOrder, 1, Len(calls))
             /\ calls # <<>> =>
                    session.scheduled /\ opts = ContainerOpts(session)
             /\ ~serr.nil =>
                    \/ /\ calls = <<>>
                       /\ serr \in {Err("context canceled"), Err("get session failed"),
                                     Err("user: Current not implemented")}
                    \/ /\ calls # <<>> /\ Last(calls) # "Attach"
                       /\ serr = Err(Last(calls) \o " failed")
                    \/ /\ calls # <<>> /\ Last(calls) = "Attach"
                       /\ serr = attachRes.handled
             /\ (pc = "done" /\ sid # "" /\ ~ret.nil) => ret = serr)
    /\ [][(cmd = "create" /\ (~serr.nil \/ pc \in {"panic", "done"})) =>
             calls' = calls]_vars

\* The image pull failed: no container was created, and the pull's error is
\* what `create` returned.
C22_Witness ==
    /\ cmd = "create" /\ pc = "done"
    /\ calls = <<"NewRuntime", "PullImage">>
    /\ ret = Err("PullImage failed")

-----------------------------------------------------------------------------
(* C23: `executor install` is fail-fast, with no rollback.                 *)

\* The six steps of install after the cluster lookup: where each begins, the
\* artifact it writes, and the errors it returns.
InstallPcs == <<"i_MkdirAll", "i_Token", "i_Config", "i_Unit", "i_Download", "i_Start">>
InstallFiles == <<"configDir", "token", "config", "unit", "binary">>
InstallErrs(k) ==
    CASE k = 1 -> {Err("mkdir failed")}
      [] k = 2 -> {Err("write token failed")}
      [] k = 3 -> {Err("write config failed")}
      [] k = 4 -> {Err("write unit failed")}
      [] k = 5 -> {Err("download: " \o o) : o \in DownloadOutcomes \ {"ok"}}
      [] OTHER -> {Err("start: " \o o) : o \in StartOutcomes \ {"ok"}}
\* The step a side effect belongs to (0: the cluster lookup).
InstallStepOf(op) ==
    CASE op = "Cluster.Get" -> 0
      [] op = "MkdirAll configDir" -> 1
      [] op = "write token" -> 2
      [] op = "write config" -> 3
      [] op = "write unit" -> 4
      [] op \in {"GET latest", "GET executor"} \cup UpgradeFileOps -> 5
      [] OTHER -> 6

\* C23: install runs its steps in order; a step begins only with the files of
\* all earlier steps written; a step that fails ends the command with its error,
\* with no side effect of a later step and with the files of the earlier steps
\* still in place; no step changes a file other than its own; and the service is
\* started only with all five files written.
C23_InstallFailFastNoRollback ==
    /\ [](xcmd = "install" =>
             /\ \A i \in 1..Len(ops) : \A j \in i..Len(ops) :
                    InstallStepOf(ops[i]) <= InstallStepOf(ops[j])
             /\ \A k \in 1..6 :
                    /\ xpc = InstallPcs[k] =>
                           /\ \A j \in 1..(k - 1) : fs[InstallFiles[j]] = "ok"
                           /\ \A i \in 1..Len(ops) : InstallStepOf(ops[i]) < k
                    /\ (xpc = "idle" /\ xret \in InstallErrs(k)) =>
                           /\ \A j \in 1..(k - 1) : fs[InstallFiles[j]] = "ok"
                           /\ InstallStepOf(Last(ops)) = k
             /\ InSeq("systemctl start", ops) =>
                    \A j \in 1..5 : fs[InstallFiles[j]] = "ok")
    /\ [][\A k \in 1..6 :
             (xcmd = "install" /\ xpc = InstallPcs[k] /\ xpc' # xpc) =>
                /\ \A a \in Artifacts :
                      (k = 6 \/ a # InstallFiles[IF k = 6 THEN 1 ELSE k]) => fs'[a] = fs[a]
                /\ \/ k < 6 /\ xpc' = InstallPcs[k + 1] /\ xret' = xret
                   \/ xpc' = "idle" /\ xret' \in InstallErrs(k)
                   \/ k = 6 /\ xpc' = "idle" /\ xret' = NoErr]_vars

\* An install whose download failed: the directory, the token, the config and
\* the unit are left written, there is no binary and nothing was started.
C23_Witness ==
    /\ xcmd = "install" /\ xpc = "idle" /\ xret = Err("download: getFail")
    /\ Last(ops) = "GET executor"
    /\ \A j \in 1..4 : fs[InstallFiles[j]] = "ok"
    /\ fs["binary"] = "absent"
    /\ ~svc.enabled /\ ~svc.running

-----------------------------------------------------------------------------
(* C24: `executor upgrade` stops, replaces the binary, then starts.        *)

\* C24: upgrade touches the binary only after `systemctl disable` and `systemctl
\* stop` have both succeeded, with the service disabled and stopped; a failed
\* stop ends the command with the files as they were; a failed download ends it
\* with the service still stopped and no start call made; the start follows a
\* completed download; and an upgrade that succeeded has left the service
\* enabled and started and the binary written.
C24_UpgradeStopReplaceStart ==
    /\ [](xcmd = "upgrade" =>
             /\ (\E i \in 1..Len(ops) : ops[i] \in UpgradeFileOps \cup {"GET latest"}) =>
                    SubSeq(ops, 1, 3) = <<"systemctl disable", "systemctl stop", "GET latest">>
             /\ InSeq("systemctl daemon-reload", ops) =>
                    SubSeq(ops, 3, 8) = <<"GET latest", "GET executor", "Create binary",
                                          "Copy binary", "Chmod binary",
                                          "systemctl daemon-reload">>
             /\ xpc = "g_Download" => (~svc.enabled /\ ~svc.running)
             /\ (xpc = "idle" /\ xret = NoErr) =>
                    (svc.enabled /\ svc.running /\ fs["binary"] = "ok"))
    /\ [][(xcmd = "upgrade" /\ xpc = "g_Stop" /\ xpc' = "idle") =>
             (~xret'.nil /\ fs' = fs)]_vars
    /\ [][(xcmd = "upgrade" /\ xpc = "g_Download" /\ xpc' = "idle") =>
             (~xret'.nil /\ svc' = svc /\ ~svc'.running
              /\ ~InSeq("systemctl daemon-reload", ops'))]_vars

\* An upgrade whose download broke off while copying: the service is stopped,
\* the binary is partly written and no start call was made.
C24_Witness ==
    /\ xcmd = "upgrade" /\ xpc = "idle" /\ xret = Err("download: copyFail")
    /\ ops = <<"systemctl disable", "systemctl stop", "GET latest", "GET executor",
               "Create binary", "Copy binary">>
    /\ fs["binary"] = "partial"
    /\ ~svc.enabled /\ ~svc.running

-----------------------------------------------------------------------------
(* C25: the compensating cancel of `session create`.                       *)

\* C25: every patch `create` sends is a cancel of its session sent under
\* context.Background(), never under the command's context; when startSession
\* has failed exactly one is sent, with ctx canceled or not; and whether the
\* patch succeeds or fails, the command returns startSession's error.
C25_CancelUnderFreshContext ==
    /\ [](/\ \A i \in 1..Len(patches) : patches[i] = TheCancelPatch
          /\ \A i \in 1..Len(requests) :
                requests[i].op = "Patch" => requests[i].ctx = "Background"
          /\ (cmd = "create" /\ pc = "done" /\ ~serr.nil) =>
                /\ patches = <<TheCancelPatch>>
                /\ Last(requests).op = "Patch"
                /\ ret = serr)
    /\ [][pc = "patch" =>
             \/ UNCHANGED <<pc, patches, requests, ret>>
             \/ /\ pc' = "done" /\ ret' = serr
                /\ patches' = Append(patches, TheCancelPatch)
                /\ \E ok \in BOOLEAN :
                      requests' = Append(requests, Req("Patch", "Background", ok))]_vars

\* ctx was canceled during the wait; the patch was sent all the same and took
\* effect, and the command returned ctx's error.
C25_Witness ==
    /\ cmd = "create" /\ pc = "done" /\ ctxDone
    /\ serr = Err("context canceled") /\ ret = serr
    /\ patches = <<TheCancelPatch>>
    /\ Last(requests) = Req("Patch", "Background", TRUE)
    /\ remote.canceled

\* The patch failed, and the command returned the launch error all the same.
C25_WitnessPatchFailed ==
    /\ cmd = "create" /\ pc = "done"
    /\ ret = Err("PullImage failed")
    /\ Last(requests) = Req("Patch", "Background", FALSE)
    /\ ~remote.canceled

-----------------------------------------------------------------------------
(* C26: the binary download has no rollback.                               *)

\* C26: a download of install that fails at the copy or at the chmod ends the
\* command with the created file left at the binary path and with no
\* init-system call made; an install that finds a file at the binary path is
\* rejected as already installed and changes nothing; and a file at the binary
\* path goes away only by uninstall's removal of the binary.
C26_PartialBinaryBlocksInstall ==
    /\ [][(xcmd = "install" /\ xpc = "i_Download" /\ xpc' = "idle"
            /\ Last(ops') \in {"Copy binary", "Chmod binary"} /\ ~xret'.nil) =>
             /\ fs'["binary"] = "partial"
             /\ svc' = svc
             /\ \A i \in 1..Len(ops') : ops'[i] \notin SystemctlOps]_vars
    /\ [][(xcmd = "install" /\ xpc = "i_Stat" /\ xpc' # xpc
            /\ fs["binary"] # "absent") =>
             /\ xpc' = "idle" /\ xret' = Err("executor is already installed")
             /\ fs' = fs /\ svc' = svc /\ ops' = <<>>]_vars
    /\ [][(fs["binary"] # "absent" /\ fs'["binary"] = "absent") =>
             (xcmd = "uninstall" /\ xpc = "u_rm_binary")]_vars

\* An install rejected because an earlier download left part of a binary behind,
\* with the service neither enabled nor running.
C26_Witness ==
    /\ xcmd = "install" /\ xpc = "idle"
    /\ xret = Err("executor is already installed")
    /\ fs["binary"] = "partial"
    /\ ops = <<>>
    /\ ~svc.enabled /\ ~svc.running

\* An install whose download has just failed at the copy.
C26_WitnessFailedCopy ==
    /\ xcmd = "install" /\ xpc = "idle" /\ xret = Err("download: copyFail")
    /\ fs["binary"] = "partial"
    /\ ~svc.running

-----------------------------------------------------------------------------
(* C27: the node's states under the lifecycle commands.                    *)

\* C27: in every state reached from an absent executor the service runs only
\* with the binary, the service unit and the config file present; and when a
\* confirmed uninstall has returned success, the service is not running and the
\* token, the unit, the config and the binary are gone.
C27_RunningOnlyWhenInstalled ==
    /\ svc.running =>
          \A a \in {"binary", "unit", "config"} : fs[a] # "absent"
    /\ (xcmd = "uninstall" /\ xpc = "idle" /\ xret = NoErr
        /\ InSeq("confirm: yes", ops)) =>
          /\ ~svc.running
          /\ \A a \in {"token", "unit", "config", "binary"} : fs[a] = "absent"

-----------------------------------------------------------------------------
(* C28: two invocations of `executor install` at once.                     *)

\* What an invocation has done once its download is complete.
WroteAll(o) ==
    /\ InSeq("write token", o) /\ InSeq("write config", o)
    /\ InSeq("write unit", o) /\ InSeq("Chmod binary", o)

\* C28: the check at the head of install looks at the binary path and at nothing
\* else: whatever the other invocation is doing, an install goes on exactly when
\* there is no file at the binary path when it looks, and it is turned away as
\* already installed at that check only; so two invocations that both looked
\* before either created the binary both go on to write the token, the config,
\* the unit and the binary.
C28_CheckDoesNotSerialize ==
    /\ [][(other' = other /\ xpc = "i_Stat" /\ xpc' # xpc) =>
             /\ fs["binary"] = "absent" => xpc' = "i_Cluster"
             /\ fs["binary"] # "absent" =>
                    (xpc' = "idle" /\ xret' = Err("executor is already installed"))]_vars
    /\ [][(other' = other /\ xpc # "i_Stat") =>
             xret' # Err("executor is already installed") \/ xret' = xret]_vars
    /\ []((xpc = "i_Start" /\ other.xpc = "i_Start") =>
             (WroteAll(ops) /\ WroteAll(other.ops)))

\* Both invocations passed the check and both have written the token, the
\* config, the unit and the binary.
C28_Witness ==
    /\ xcmd = "install" /\ other.xcmd = "install"
    /\ xpc = "i_Start" /\ other.xpc = "i_Start"
    /\ WroteAll(ops) /\ WroteAll(other.ops)

-----------------------------------------------------------------------------
(* C29: the container findRunningContainer returns.                        *)

\* The Info calls findRunningContainer has made.
InfoCalls == Cardinality({i \in 1..Len(calls) : calls[i] = "Info"})

\* C29: attach and exec are given the container at index ci only if its session
\* label is the requested session ID, character for character, and no container
\* listed before it carries that label; "container not found" is returned only
\* when every listed container has been examined and none carries the label; and
\* a failed Info ends the search with its error, at a container before which none
\* carried the label.
C29_LabelMatchesExactly ==
    (cmd \in {"attach", "exec"} /\ InCalls("ListContainers")) =>
        /\ (pc = "find_Found" \/ Attached) =>
               /\ ci \in 1..Len(containers)
               /\ containers[ci] = sid
               /\ \A j \in 1..(ci - 1) : containers[j] # sid
               /\ InfoCalls = ci
        /\ ret = Err("container not found") =>
               /\ \A j \in 1..Len(containers) : containers[j] # sid
               /\ InfoCalls = Len(containers)
               /\ ~Attached
        /\ ret = Err("container info failed") =>
               /\ ci \in 1..Len(containers)
               /\ \A j \in 1..(ci - 1) : containers[j] # sid
               /\ InfoCalls = ci
               /\ ~Attached

\* The first container listed carries the ID of another session, one that differs
\* only in case; the second carries the requested ID and is the one attached to.
C29_Witness ==
    /\ cmd \in {"attach", "exec"} /\ Attached
    /\ sid = "01ABC"
    /\ containers = <<"01abc", "01ABC">>
    /\ ci = 2

====
